---- MODULE Spec2Model ----
(***************************************************************************)
(* Model of examples/How_to_combine_GPT4o_with_RAG_Outfit_Assistant.ipynb: *)
(* batched corpus embedding (get_embeddings, batchify, embed_corpus,       *)
(* generate_embeddings), similarity search (cosine_similarity_manual,      *)
(* find_similar_items), retrieval (find_matching_items_with_rag, cell 23)  *)
(* and the guardrail loop (cell 27).                                       *)
(*                                                                         *)
(* Four specifications share the module:                                   *)
(*   SpecRetry  one get_embeddings call, attempt by attempt                *)
(*   SpecEmbed  generate_embeddings / embed_corpus with its thread pool    *)
(*   SpecQuery  find_similar_items on one query                            *)
(*   SpecRag    cell 23 (filter, retrieval, paths) and cell 27 (guardrail) *)
(***************************************************************************)
EXTENDS Integers, Sequences, FiniteSets, TLC

VARIABLES
    \* ---- SpecRetry: one call of get_embeddings
    rc,               \* the call: [input, attempt, status, value]
    rc_log,           \* outcome of every attempt made so far, in order
    \* ---- SpecEmbed: generate_embeddings(df, column) -> embed_corpus
    corpus,           \* df[column_name].astype(str).tolist(), as token lists
    batch_size, num_workers, max_context_len,
    encoded_corpus,   \* truncated token lists
    ndx,              \* position of the batchify generator
    futures,          \* sequence of [input, state, data]
    queue,            \* executor work queue: indices of futures, FIFO
    nthreads,         \* worker threads started by the executor
    pbar,             \* tqdm counter n
    yielded,          \* futures already yielded by as_completed
    embeddings,       \* local list of embed_corpus
    fi,               \* index of the next future whose result() is taken
    result,           \* what embed_corpus returned: <<>> = nothing, <<list>> = the list
    done_order,       \* history: indices of the futures in the order they ended
    pc,               \* position of the main thread
    df_embeddings,    \* the df['embeddings'] column: <<>> = absent, <<list>> = set
    \* ---- SpecQuery: one call of find_similar_items
    q_input,          \* input_embedding
    q_index,          \* embeddings
    q_threshold, q_top_k,
    q_result,         \* the returned list of (index, similarity)
    q_pc,
    \* ---- SpecRag: cell 23 (filter, retrieval, paths) and cell 27 (guardrail)
    styles_df,        \* the catalog: rows [id, gender, articleType, embeddings]
    image_analysis,   \* [items, category, gender]
    filtered_items,
    matching_items,   \* similar_items of find_matching_items_with_rag
    retrieved,        \* history: per description handled, the row ids it retrieved
    paths,
    checked,          \* history: the check_match calls, [path, answer], in order
    displayed,        \* the images displayed by the guardrail loop, in order
    g_pc

retryVars == <<rc, rc_log>>
embedVars == <<corpus, batch_size, num_workers, max_context_len, encoded_corpus,
               ndx, futures, queue, nthreads, pbar, yielded, embeddings, fi, result,
               done_order, pc, df_embeddings>>
queryVars == <<q_input, q_index, q_threshold, q_top_k, q_result, q_pc>>
ragVars == <<styles_df, image_analysis, filtered_items, matching_items, retrieved,
             paths, checked, displayed, g_pc>>
vars == <<retryVars, embedVars, queryVars, ragVars>>

----------------------------------------------------------------------------
\* Bounds of the model
MaxN       == 3      \* longest corpus
MaxTextLen == 2      \* longest text, in tokens
MaxBatch   == 2      \* largest batch_size
MaxWorkers == 2      \* largest num_workers
MaxCtx     == 2      \* largest max_context_len
MaxIndex   == 3      \* most vectors in a similarity index
MaxTopK    == 3      \* largest top_k
MaxItems   == 2      \* most rows in the catalog
MaxDescs   == 2      \* most item descriptions in an analysis

\* stop_after_attempt(10)
MaxAttempts == 10

Min(a, b) == IF a < b THEN a ELSE b

Tokens == {1, 2}

\* A text of k tokens (after encoding): the two tokens in alternation, so that
\* a prefix of a text differs from its other parts.
Text(k) == [j \in 1..k |-> ((j + k) % 2) + 1]
Texts == {Text(k) : k \in 1..MaxTextLen}

\* The corpora: up to MaxN texts whose lengths cycle through 1..MaxTextLen, from
\* any starting length, so that neighbouring texts differ.
Corpora ==
    {[i \in 1..n |-> Text(((i + off) % MaxTextLen) + 1)] :
        n \in 0..MaxN, off \in 0..(MaxTextLen - 1)}

SeqsUpTo(S, n) == UNION {[1..k -> S] : k \in 0..n}

\* Python slice s[a:b] with 0 <= a, 0-based, end exclusive, clipped to len(s)
Slice(s, a, b) ==
    LET hi == Min(b, Len(s))
    IN  IF a >= hi THEN <<>> ELSE [j \in 1..(hi - a) |-> s[a + j]]

RECURSIVE Count(_, _)
Count(s, x) ==
    IF s = <<>> THEN 0
    ELSE (IF s[1] = x THEN 1 ELSE 0) + Count(Tail(s), x)

\* The embedding model, an external capability text -> vector: deterministic,
\* one fixed-dimension vector per input (here the token counts).
EmbeddingModel(toks) == <<Count(toks, 1), Count(toks, 2)>>

\* client.embeddings.create(input=..., model=...).data, when the request succeeds:
\* one embedding per input, in input order.
EmbeddingsCreate(input) == [j \in 1..Len(input) |-> EmbeddingModel(input[j])]

----------------------------------------------------------------------------
\* get_embeddings under @retry(wait=..., stop=stop_after_attempt(10))

NewCall(input) ==
    [input |-> input, attempt |-> 1, status |-> "calling", value |-> <<>>]

\* Attempt with the stop test after the increment: an 11th attempt is made.
AttemptOffByOne(call, ok) ==
    IF ok
    THEN [call EXCEPT !.status = "returned", !.value = EmbeddingsCreate(call.input)]
    ELSE IF call.attempt > MaxAttempts
         THEN [call EXCEPT !.status = "raised"]
         ELSE [call EXCEPT !.attempt = call.attempt + 1]

\* One attempt of the decorated function: ok says whether the request succeeded.
\* A success returns the vectors; a failure retries unless this was attempt 10,
\* and then the retry error is raised.
Attempt(call, ok) ==
    IF ok
    THEN [call EXCEPT !.status = "returned", !.value = EmbeddingsCreate(call.input)]
    ELSE IF call.attempt >= MaxAttempts
         THEN [call EXCEPT !.status = "raised"]
         ELSE [call EXCEPT !.attempt = call.attempt + 1]

\* The whole call when the service fails nFail times in a row and then succeeds.
RECURSIVE RunCall(_, _)
RunCall(call, nFail) ==
    IF call.status # "calling" THEN call
    ELSE IF nFail = 0 THEN Attempt(call, TRUE)
         ELSE RunCall(Attempt(call, FALSE), nFail - 1)

get_embeddings(input, nFail) == RunCall(NewCall(input), nFail)

----------------------------------------------------------------------------
\* batchify_yield with the upper end clipped to l - 1: the last element is lost.
batchify_yield_short(iterable, n, at) ==
    Slice(iterable, at, Min(at + n, Len(iterable) - 1))

\* batchify(iterable, n): the generator's next value at position ndx
batchify_yield(iterable, n, at) == Slice(iterable, at, Min(at + n, Len(iterable)))
batchify_done(iterable, at) == at >= Len(iterable)

\* Truncate that keeps the last maxlen tokens instead of the first.
TruncateKeepEnd(article, maxlen) ==
    Slice(article, IF Len(article) > maxlen THEN Len(article) - maxlen ELSE 0,
          Len(article))

\* encoded_article[:max_context_len]
Truncate(article, maxlen) == Slice(article, 0, maxlen)

----------------------------------------------------------------------------
\* cosine_similarity_manual and find_similar_items
\*
\* A similarity dot / (norm1 * norm2) is kept exactly, as the pair
\* [dot, nsq] with nsq = norm1^2 * norm2^2, i.e. the number dot / sqrt(nsq).
\* nsq = 0 is the division 0.0 / 0.0 of a zero-norm vector, which numpy
\* evaluates to nan. A threshold is a number of the same form.

Dot(v, w) == v[1] * w[1] + v[2] * w[2]
NormSq(v) == Dot(v, v)

cosine_similarity_manual(vec1, vec2) ==
    [dot |-> Dot(vec1, vec2), nsq |-> NormSq(vec1) * NormSq(vec2)]

IsNaN(x) == x.nsq = 0

SignedSq(d) == IF d >= 0 THEN d * d ELSE -(d * d)

\* x > y on floats: false when either side is nan
Greater(x, y) ==
    /\ ~IsNaN(x) /\ ~IsNaN(y)
    /\ SignedSq(x.dot) * y.nsq > SignedSq(y.dot) * x.nsq

\* x >= y on floats: false when either side is nan
Geq(x, y) ==
    /\ ~IsNaN(x) /\ ~IsNaN(y)
    /\ SignedSq(x.dot) * y.nsq >= SignedSq(y.dot) * x.nsq

\* x < y on floats
Less(x, y) ==
    /\ ~IsNaN(x) /\ ~IsNaN(y)
    /\ SignedSq(x.dot) * y.nsq < SignedSq(y.dot) * x.nsq

\* [(index, cosine_similarity_manual(input_embedding, vec))
\*  for index, vec in enumerate(embeddings)]
Similarities(input_embedding, embs) ==
    [j \in 1..Len(embs) |->
        [index |-> j - 1, sim |-> cosine_similarity_manual(input_embedding, embs[j])]]

\* Filter with `sim > threshold`: a score equal to the threshold is dropped.
FilterStrict(sims, threshold) ==
    SelectSeq(sims, LAMBDA e : Greater(e.sim, threshold))

\* Filter with `not sim < threshold`: a nan similarity is kept.
FilterNotLess(sims, threshold) ==
    SelectSeq(sims, LAMBDA e : ~Less(e.sim, threshold))

\* [(index, sim) for index, sim in similarities if sim >= threshold]
Filter(sims, threshold) ==
    SelectSeq(sims, LAMBDA e : Geq(e.sim, threshold))

\* Insert e into a list sorted descending, before the first element at least as
\* low: equal scores end up in reverse input order.
RECURSIVE InsertBeforeEqual(_, _)
InsertBeforeEqual(sorted, e) ==
    IF sorted = <<>> THEN <<e>>
    ELSE IF Less(e.sim, Head(sorted).sim)
         THEN <<Head(sorted)>> \o InsertBeforeEqual(Tail(sorted), e)
         ELSE <<e>> \o sorted

\* Insert e into a list sorted descending, behind every element that is not
\* lower than e: among equal scores the earlier input stays first.
RECURSIVE InsertStable(_, _)
InsertStable(sorted, e) ==
    IF sorted = <<>> THEN <<e>>
    ELSE IF Less(Head(sorted).sim, e.sim)
         THEN <<e>> \o sorted
         ELSE <<Head(sorted)>> \o InsertStable(Tail(sorted), e)

\* A descending sort that is not stable.
RECURSIVE SortedUnstable(_)
SortedUnstable(list) ==
    IF list = <<>> THEN <<>>
    ELSE InsertBeforeEqual(SortedUnstable(SubSeq(list, 1, Len(list) - 1)),
                           list[Len(list)])

\* sorted(list, key=lambda x: x[1], reverse=True): descending, and stable
\* (reverse=True keeps the original order of equal keys)
RECURSIVE SortedByScore(_)
SortedByScore(list) ==
    IF list = <<>> THEN <<>>
    ELSE InsertStable(SortedByScore(SubSeq(list, 1, Len(list) - 1)),
                      list[Len(list)])

\* find_similar_items cutting to top_k before it filters and sorts.
find_similar_items_cut_first(input_embedding, embs, threshold, top_k) ==
    SortedByScore(Filter(Slice(Similarities(input_embedding, embs), 0, top_k),
                         threshold))

find_similar_items(input_embedding, embs, threshold, top_k) ==
    Slice(SortedByScore(Filter(Similarities(input_embedding, embs), threshold)),
          0, top_k)

----------------------------------------------------------------------------
\* Values of the variables a specification does not use
QueryIdle ==
    /\ q_input = <<0, 0>> /\ q_index = <<>> /\ q_threshold = [dot |-> 1, nsq |-> 4]
    /\ q_top_k = 0 /\ q_result = <<>> /\ q_pc = "idle"

RetryIdle ==
    /\ rc = [NewCall(<<>>) EXCEPT !.status = "idle"]
    /\ rc_log = <<>>

EmbedIdle ==
    /\ corpus = <<>> /\ batch_size = 1 /\ num_workers = 1 /\ max_context_len = 1
    /\ encoded_corpus = <<>> /\ ndx = 0 /\ futures = <<>> /\ queue = <<>>
    /\ nthreads = 0 /\ pbar = 0 /\ yielded = {} /\ embeddings = <<>> /\ fi = 1
    /\ result = <<>> /\ done_order = <<>>
    /\ pc = "idle" /\ df_embeddings = <<>>

RagIdle ==
    /\ styles_df = <<>> /\ image_analysis = [items |-> <<>>, category |-> "", gender |-> ""]
    /\ filtered_items = <<>> /\ matching_items = <<>> /\ retrieved = <<>>
    /\ paths = <<>> /\ checked = <<>> /\ displayed = <<>> /\ g_pc = "idle"

----------------------------------------------------------------------------
\* SpecRetry: one get_embeddings call, one attempt per step

RetryInputs == SeqsUpTo(Texts, MaxBatch) \ {<<>>}

InitRetry ==
    /\ \E input \in RetryInputs : rc = NewCall(input)
    /\ rc_log = <<>>
    /\ EmbedIdle
    /\ QueryIdle
    /\ RagIdle

\* the request of the current attempt succeeds
AttemptSucceeds ==
    /\ rc.status = "calling"
    /\ rc' = Attempt(rc, TRUE)
    /\ rc_log' = Append(rc_log, TRUE)
    /\ UNCHANGED <<embedVars, queryVars, ragVars>>

\* the request of the current attempt raises
AttemptFails ==
    /\ rc.status = "calling"
    /\ rc' = Attempt(rc, FALSE)
    /\ rc_log' = Append(rc_log, FALSE)
    /\ UNCHANGED <<embedVars, queryVars, ragVars>>

NextRetry == AttemptSucceeds \/ AttemptFails

SpecRetry == InitRetry /\ [][NextRetry]_vars

----------------------------------------------------------------------------
\* SpecEmbed: generate_embeddings -> embed_corpus, main thread and pool workers

NewFuture(input) == [input |-> input, state |-> "pending", data |-> <<>>]

Running == {i \in 1..Len(futures) : futures[i].state = "running"}
Terminal(i) == futures[i].state \in {"finished", "failed"}

InitEmbed ==
    /\ corpus \in Corpora
    /\ batch_size \in 1..MaxBatch
    /\ num_workers \in 1..MaxWorkers
    /\ max_context_len \in 1..MaxCtx
    /\ encoded_corpus = <<>> /\ ndx = 0 /\ futures = <<>> /\ queue = <<>>
    /\ nthreads = 0 /\ pbar = 0 /\ yielded = {} /\ embeddings = <<>> /\ fi = 1
    /\ result = <<>> /\ done_order = <<>>
    /\ pc = "encode" /\ df_embeddings = <<>>
    /\ RetryIdle
    /\ QueryIdle
    /\ RagIdle

\* encoded_corpus = [a[:max_context_len] for a in encoding.encode_batch(corpus)]
Encode ==
    /\ pc = "encode"
    /\ encoded_corpus' = [j \in 1..Len(corpus) |-> Truncate(corpus[j], max_context_len)]
    /\ pc' = "submit"
    /\ UNCHANGED <<corpus, batch_size, num_workers, max_context_len, ndx, futures,
                   queue, nthreads, pbar, yielded, embeddings, fi, df_embeddings,
                   result, done_order,
                   retryVars, queryVars, ragVars>>

\* An executor that starts a thread for every submit, whatever max_workers is.
ThreadsUnbounded(n, max_workers) == n + 1

\* ThreadPoolExecutor(max_workers=num_workers): a submit starts a worker thread
\* only while fewer than max_workers exist
ThreadsAfterSubmit(n, max_workers) == Min(n + 1, max_workers)

\* one round of the list comprehension: batchify yields the next batch and
\* executor.submit queues it, starting a worker thread while fewer than
\* max_workers exist
Submit ==
    /\ pc = "submit"
    /\ ~batchify_done(encoded_corpus, ndx)
    /\ futures' = Append(futures,
                     NewFuture(batchify_yield(encoded_corpus, batch_size, ndx)))
    /\ queue' = Append(queue, Len(futures) + 1)
    /\ nthreads' = ThreadsAfterSubmit(nthreads, num_workers)
    /\ ndx' = ndx + batch_size
    /\ UNCHANGED <<corpus, batch_size, num_workers, max_context_len, encoded_corpus,
                   pbar, yielded, embeddings, fi, pc, df_embeddings, result, done_order,
                   retryVars, queryVars, ragVars>>

\* the generator is exhausted: the futures list is complete
SubmitDone ==
    /\ pc = "submit"
    /\ batchify_done(encoded_corpus, ndx)
    /\ pc' = "progress"
    /\ UNCHANGED <<corpus, batch_size, num_workers, max_context_len, encoded_corpus,
                   ndx, futures, queue, nthreads, pbar, yielded, embeddings, fi,
                   df_embeddings, result, done_order,
                   retryVars, queryVars, ragVars>>

\* an idle worker thread takes the oldest work item from the queue
StartTask ==
    /\ queue # <<>>
    /\ Cardinality(Running) < nthreads
    /\ futures' = [futures EXCEPT ![Head(queue)].state = "running"]
    /\ queue' = Tail(queue)
    /\ UNCHANGED <<corpus, batch_size, num_workers, max_context_len, encoded_corpus,
                   ndx, nthreads, pbar, yielded, embeddings, fi, pc, df_embeddings,
                   result, done_order,
                   retryVars, queryVars, ragVars>>

\* the future of a get_embeddings call that ended as `call`
Settle(f, call) ==
    IF call.status = "returned"
    THEN [f EXCEPT !.state = "finished", !.data = call.value]
    ELSE [f EXCEPT !.state = "failed"]

\* a worker's get_embeddings call ends: with the vectors, or with the retry
\* error once 10 attempts failed
FinishTask(i) ==
    /\ futures[i].state = "running"
    /\ \E nFail \in 0..MaxAttempts :
          futures' = [futures EXCEPT
                        ![i] = Settle(@, get_embeddings(futures[i].input, nFail))]
    /\ done_order' = Append(done_order, i)
    /\ UNCHANGED <<corpus, batch_size, num_workers, max_context_len, encoded_corpus,
                   ndx, queue, nthreads, pbar, yielded, embeddings, fi, pc,
                   df_embeddings, result,
                   retryVars, queryVars, ragVars>>

\* for _ in as_completed(futures): pbar.update(batch_size)
ProgressIncrement == batch_size

AsCompleted(i) ==
    /\ pc = "progress"
    /\ i \notin yielded
    /\ Terminal(i)
    /\ yielded' = yielded \cup {i}
    /\ pbar' = pbar + ProgressIncrement
    /\ UNCHANGED <<corpus, batch_size, num_workers, max_context_len, encoded_corpus,
                   ndx, futures, queue, nthreads, embeddings, fi, pc, df_embeddings,
                   result, done_order,
                   retryVars, queryVars, ragVars>>

\* ProgressDone that also leaves the loop as soon as a future has failed.
ProgressDoneOnFailure ==
    /\ pc = "progress"
    /\ \/ yielded = 1..Len(futures)
       \/ \E i \in 1..Len(futures) : futures[i].state = "failed"
    /\ pc' = "collect"
    /\ UNCHANGED <<corpus, batch_size, num_workers, max_context_len, encoded_corpus,
                   ndx, futures, queue, nthreads, pbar, yielded, embeddings, fi,
                   df_embeddings, result, done_order, retryVars, queryVars, ragVars>>

\* as_completed has yielded every future
ProgressDone ==
    /\ pc = "progress"
    /\ yielded = 1..Len(futures)
    /\ pc' = "collect"
    /\ UNCHANGED <<corpus, batch_size, num_workers, max_context_len, encoded_corpus,
                   ndx, futures, queue, nthreads, pbar, yielded, embeddings, fi,
                   df_embeddings, result, done_order,
                   retryVars, queryVars, ragVars>>

\* embeddings.extend(data)
Extend(list, data) == list \o data

\* ResultOrder in completion order (append-on-completion).
ResultOrderByCompletion == done_order

\* the order in which `for future in futures` visits the futures: list order,
\* which is submission order
ResultOrder == [j \in 1..Len(futures) |-> j]

\* Collect that skips a failed future instead of re-raising its exception.
CollectSalvage ==
    /\ pc = "collect"
    /\ fi <= Len(futures)
    /\ Terminal(ResultOrder[fi])
    /\ embeddings' = IF futures[ResultOrder[fi]].state = "finished"
                     THEN Extend(embeddings, futures[ResultOrder[fi]].data)
                     ELSE embeddings
    /\ fi' = fi + 1
    /\ UNCHANGED <<corpus, batch_size, num_workers, max_context_len, encoded_corpus,
                   ndx, futures, queue, nthreads, pbar, yielded, df_embeddings,
                   result, done_order, pc, retryVars, queryVars, ragVars>>

\* for future in futures: data = future.result(); embeddings.extend(data)
\* result() re-raises the call's exception, which leaves embed_corpus
Collect ==
    /\ pc = "collect"
    /\ fi <= Len(futures)
    /\ Terminal(ResultOrder[fi])
    /\ IF futures[ResultOrder[fi]].state = "finished"
       THEN /\ embeddings' = Extend(embeddings, futures[ResultOrder[fi]].data)
            /\ fi' = fi + 1
            /\ pc' = pc
       ELSE /\ pc' = "raised"
            /\ UNCHANGED <<embeddings, fi>>
    /\ UNCHANGED <<corpus, batch_size, num_workers, max_context_len, encoded_corpus,
                   ndx, futures, queue, nthreads, pbar, yielded, df_embeddings,
                   result, done_order,
                   retryVars, queryVars, ragVars>>

\* return embeddings
Return ==
    /\ pc = "collect"
    /\ fi > Len(futures)
    /\ result' = <<embeddings>>
    /\ pc' = "returned"
    /\ UNCHANGED <<corpus, batch_size, num_workers, max_context_len, encoded_corpus,
                   ndx, futures, queue, nthreads, pbar, yielded, embeddings, fi,
                   df_embeddings, done_order,
                   retryVars, queryVars, ragVars>>

\* generate_embeddings: df['embeddings'] = embeddings, reached only when
\* embed_corpus returned
AssignColumn ==
    /\ pc = "returned"
    /\ df_embeddings' = <<embeddings>>
    /\ pc' = "done"
    /\ UNCHANGED <<corpus, batch_size, num_workers, max_context_len, encoded_corpus,
                   ndx, futures, queue, nthreads, pbar, yielded, embeddings, fi,
                   result, done_order,
                   retryVars, queryVars, ragVars>>

NextEmbed ==
    \/ Encode
    \/ Submit
    \/ SubmitDone
    \/ StartTask
    \/ \E i \in 1..Len(futures) : FinishTask(i)
    \/ \E i \in 1..Len(futures) : AsCompleted(i)
    \/ ProgressDone
    \/ Collect
    \/ Return
    \/ AssignColumn

SpecEmbed == InitEmbed /\ [][NextEmbed]_vars

----------------------------------------------------------------------------
\* SpecQuery: one call of find_similar_items

\* threshold=0.5 (the default), 0.6 (find_matching_items_with_rag), 0.0
Thresholds == {[dot |-> 1, nsq |-> 4], [dot |-> 3, nsq |-> 25], [dot |-> 0, nsq |-> 1]}

QueryVecs == {<<0, 0>>, <<1, 0>>, <<1, 1>>}
IndexVecs == {<<0, 0>>, <<1, 0>>, <<0, 1>>, <<1, 1>>, <<3, 4>>, <<-1, 0>>}

InitQuery ==
    /\ q_input \in QueryVecs
    /\ q_index \in SeqsUpTo(IndexVecs, MaxIndex)
    /\ q_threshold \in Thresholds
    /\ q_top_k \in 0..MaxTopK
    /\ q_result = <<>>
    /\ q_pc = "call"
    /\ RetryIdle
    /\ EmbedIdle
    /\ RagIdle

Query ==
    /\ q_pc = "call"
    /\ q_result' = find_similar_items(q_input, q_index, q_threshold, q_top_k)
    /\ q_pc' = "done"
    /\ UNCHANGED <<q_input, q_index, q_threshold, q_top_k, retryVars, embedVars,
                   ragVars>>

NextQuery == Query

SpecQuery == InitQuery /\ [][NextQuery]_vars

----------------------------------------------------------------------------
\* SpecRag: cell 23 and cell 27 on one analysed image

\* threshold=0.6 of find_matching_items_with_rag
RagThreshold == [dot |-> 3, nsq |-> 25]
\* top_k=2, the default of find_similar_items
DefaultTopK == 2

\* Catalog rows, without their id: gender, articleType and productDisplayName
\* (as tokens); the embeddings column holds the embedding of the name.
RowKinds ==
    { [gender |-> "Unisex", articleType |-> "Shoes",   name |-> <<1>>],
      [gender |-> "Women",  articleType |-> "Dresses", name |-> <<1, 2>>],
      [gender |-> "Women",  articleType |-> "Jackets", name |-> <<1>>],
      [gender |-> "Men",    articleType |-> "Shoes",   name |-> <<2>>] }

\* ids are unique and differ from row positions
MakeRow(kind, pos) ==
    [id |-> 100 + pos, gender |-> kind.gender, articleType |-> kind.articleType,
     embeddings |-> EmbeddingModel(kind.name)]

\* the item descriptions of an analysis, as tokens
Descs == {<<1>>, <<1, 2>>}

\* the content a check_match response can have: the answer "yes" or "no", another
\* answer, or text that json.loads rejects
Responses == {"yes", "no", "maybe", "malformed"}

InitRag ==
    /\ \E kinds \in SeqsUpTo(RowKinds, MaxItems) :
          styles_df = [j \in 1..Len(kinds) |-> MakeRow(kinds[j], j)]
    /\ image_analysis \in [items : SeqsUpTo(Descs, MaxDescs),
                           category : {"Jackets", "Shoes"},
                           gender : {"Women", "Men"}]
    /\ filtered_items = <<>> /\ matching_items = <<>> /\ retrieved = <<>>
    /\ paths = <<>> /\ checked = <<>> /\ displayed = <<>>
    /\ g_pc = "filter"
    /\ RetryIdle
    /\ EmbedIdle
    /\ QueryIdle

\* FilterRows without the category exclusion.
FilterRowsGenderOnly(df, item_gender, item_category) ==
    SelectSeq(df, LAMBDA r : r.gender \in {item_gender, "Unisex"})

\* styles_df.loc[gender.isin([item_gender, 'Unisex'])][articleType != item_category]
FilterRows(df, item_gender, item_category) ==
    SelectSeq(SelectSeq(df, LAMBDA r : r.gender \in {item_gender, "Unisex"}),
              LAMBDA r : r.articleType # item_category)

FilterCatalog ==
    /\ g_pc = "filter"
    /\ filtered_items' = FilterRows(styles_df, image_analysis.gender,
                                    image_analysis.category)
    /\ g_pc' = "retrieve"
    /\ UNCHANGED <<styles_df, image_analysis, matching_items, retrieved, paths,
                   checked, displayed, retryVars, embedVars, queryVars>>

\* [df_items.iloc[i] for i in similar_indices]: the rows at the returned positions
RowsAt(df_items, similar_indices) ==
    [j \in 1..Len(similar_indices) |-> df_items[similar_indices[j].index + 1]]

\* Accumulate that skips a row already in similar_items.
RECURSIVE AccumulateNew(_, _)
AccumulateNew(similar_items, rows) ==
    IF rows = <<>> THEN similar_items
    ELSE AccumulateNew(
            IF \E j \in 1..Len(similar_items) : similar_items[j].id = Head(rows).id
            THEN similar_items ELSE Append(similar_items, Head(rows)),
            Tail(rows))

\* similar_items += rows
Accumulate(similar_items, rows) == similar_items \o rows

\* the item description the loop of find_matching_items_with_rag handles next
NextDesc == image_analysis.items[Len(retrieved) + 1]

\* one round of the loop of find_matching_items_with_rag: embed the description
\* (one get_embeddings call with its retries; input_embedding is the one-row
\* list it returns, whose row the similarity is computed with), query the
\* index, add the rows found. A get_embeddings call that raises leaves the cell.
RetrieveDesc ==
    /\ g_pc = "retrieve"
    /\ Len(retrieved) < Len(image_analysis.items)
    /\ \E nFail \in 0..MaxAttempts :
          LET call == get_embeddings(<<NextDesc>>, nFail)
              embs == [j \in 1..Len(filtered_items) |-> filtered_items[j].embeddings]
              rows == RowsAt(filtered_items,
                             find_similar_items(call.value[1], embs, RagThreshold,
                                                DefaultTopK))
          IN  IF call.status = "returned"
              THEN /\ matching_items' = Accumulate(matching_items, rows)
                   /\ retrieved' = Append(retrieved,
                                          [j \in 1..Len(rows) |-> rows[j].id])
                   /\ g_pc' = g_pc
              ELSE /\ g_pc' = "error"
                   /\ UNCHANGED <<matching_items, retrieved>>
    /\ UNCHANGED <<styles_df, image_analysis, filtered_items, paths, checked,
                   displayed, retryVars, embedVars, queryVars>>

\* f'data/sample_clothes/sample_images/{item_id}.jpg'
ImagePath(item_id) == <<"data/sample_clothes/sample_images/", item_id, ".jpg">>

\* find_matching_items_with_rag returns; the rest of cell 23 builds paths, one
\* per matching item, in order
BuildPaths ==
    /\ g_pc = "retrieve"
    /\ Len(retrieved) = Len(image_analysis.items)
    /\ paths' = [j \in 1..Len(matching_items) |-> ImagePath(matching_items[j].id)]
    /\ g_pc' = "dedup"
    /\ UNCHANGED <<styles_df, image_analysis, filtered_items, matching_items,
                   retrieved, checked, displayed, retryVars, embedVars, queryVars>>

Range(f) == {f[j] : j \in DOMAIN f}

\* The list itself, duplicates kept.
KeepAll(list) == {list}

\* list(set(list)): the distinct elements, in an order that is not specified
ListOfSet(list) ==
    {f \in [1..Cardinality(Range(list)) -> Range(list)] : Range(f) = Range(list)}

\* paths = list(set(paths))
DedupPaths ==
    /\ g_pc = "dedup"
    /\ paths' \in ListOfSet(paths)
    /\ g_pc' = "verify"
    /\ UNCHANGED <<styles_df, image_analysis, filtered_items, matching_items,
                   retrieved, checked, displayed, retryVars, embedVars, queryVars>>

\* Display unless the answer is "no".
ShowsUnlessNo(answer) == answer # "no"

\* if match["answer"] == 'yes'
Shows(answer) == answer = "yes"

\* one round of the guardrail loop on the next path: check_match, json.loads
\* (which raises on malformed content and leaves the cell), display on "yes"
Verify ==
    /\ g_pc = "verify"
    /\ Len(checked) < Len(paths)
    /\ \E resp \in Responses :
          LET path == paths[Len(checked) + 1] IN
          /\ checked' = Append(checked, [path |-> path, answer |-> resp])
          /\ IF resp = "malformed"
             THEN g_pc' = "error" /\ UNCHANGED displayed
             ELSE /\ g_pc' = g_pc
                  /\ displayed' = IF Shows(resp) THEN Append(displayed, path)
                                  ELSE displayed
    /\ UNCHANGED <<styles_df, image_analysis, filtered_items, matching_items,
                   retrieved, paths, retryVars, embedVars, queryVars>>

\* the guardrail loop has handled every path
VerifyDone ==
    /\ g_pc = "verify"
    /\ Len(checked) = Len(paths)
    /\ g_pc' = "done"
    /\ UNCHANGED <<styles_df, image_analysis, filtered_items, matching_items,
                   retrieved, paths, checked, displayed, retryVars, embedVars,
                   queryVars>>

NextRag ==
    \/ FilterCatalog
    \/ RetrieveDesc
    \/ BuildPaths
    \/ DedupPaths
    \/ Verify
    \/ VerifyDone

SpecRag == InitRag /\ [][NextRag]_vars

----------------------------------------------------------------------------
\* Claims

RECURSIVE Flatten(_)
Flatten(ss) == IF ss = <<>> THEN <<>> ELSE Head(ss) \o Flatten(Tail(ss))

CeilDiv(a, b) == (a + b - 1) \div b

AnyFailed == \E i \in 1..Len(futures) : futures[i].state = "failed"

\* C1: when all batches succeed embed_corpus returns (it does not raise), the
\* list it returns has exactly one vector per corpus text, and the vector at
\* position i is the embedding of text i (as truncated for the request),
\* whatever the order in which the batches completed.
C1_OrderPreserved ==
    /\ result # <<>> =>
          /\ Len(result[1]) = Len(corpus)
          /\ \A i \in 1..Len(corpus) :
                result[1][i] = EmbeddingModel(Truncate(corpus[i], max_context_len))
    /\ pc = "raised" => AnyFailed

\* C1 witness: embed_corpus has returned although the first batch to complete
\* was not the first batch, for a corpus whose first and last vectors differ.
C1_Witness ==
    /\ result # <<>>
    /\ Len(futures) >= 2
    /\ done_order[1] # 1
    /\ result[1][1] # result[1][Len(corpus)]

\* C2: the batches batchify yields are contiguous and in order: batch i (from 0)
\* is exactly the elements at indices [i*n, min((i+1)*n, N)), none is empty,
\* and once the generator is exhausted there are ceil(N/n) of them and their
\* concatenation is the input (no batch for an empty input).
C2_BatchifyPartition ==
    pc \notin {"idle", "encode"} =>
        LET N == Len(encoded_corpus) IN
        /\ \A b \in 1..Len(futures) :
              LET lo == (b - 1) * batch_size
                  hi == IF b * batch_size < N THEN b * batch_size ELSE N
              IN  /\ hi > lo
                  /\ Len(futures[b].input) = hi - lo
                  /\ \A j \in 1..(hi - lo) :
                        futures[b].input[j] = encoded_corpus[lo + j]
        /\ pc # "submit" =>
              /\ Len(futures) = CeilDiv(N, batch_size)
              /\ Flatten([b \in 1..Len(futures) |-> futures[b].input]) = encoded_corpus
              /\ (N = 0 => futures = <<>>)

\* C2 witness: the generator is exhausted after several batches, the last one
\* shorter than n.
C2_Witness ==
    /\ pc = "progress"
    /\ Len(futures) >= 2
    /\ Len(encoded_corpus) % batch_size # 0

\* C3: a get_embeddings call makes at most 10 attempts; while it is running every
\* attempt so far failed and the next one is due (attempt number = failures + 1
\* <= 10); it returns exactly when an attempt succeeded, with that attempt's
\* vectors and no attempt after it; it raises exactly when 10 attempts failed.
C3_TenAttempts ==
    LET n == Len(rc_log)
        AllFailed(k) == \A j \in 1..k : rc_log[j] = FALSE
    IN  /\ n <= MaxAttempts
        /\ rc.status = "calling" =>
              /\ AllFailed(n)
              /\ n < MaxAttempts
              /\ rc.attempt = n + 1
        /\ rc.status = "returned" =>
              /\ n >= 1 /\ rc_log[n] = TRUE /\ AllFailed(n - 1)
              /\ rc.attempt = n
              /\ rc.value = EmbeddingsCreate(rc.input)
        /\ rc.status = "raised" => n = MaxAttempts /\ AllFailed(n)
        /\ (n = MaxAttempts /\ AllFailed(n)) => rc.status = "raised"

\* C3 witness: a call that raised after its 10th failed attempt.
C3_Witness ==
    /\ rc.status = "raised"
    /\ Len(rc_log) = MaxAttempts

\* C4: once a batch has failed, embed_corpus returns nothing (not even the vectors
\* of the batches that succeeded) and the catalog gets no embeddings column.
C4_FailureIsFatal ==
    AnyFailed =>
        /\ result = <<>>
        /\ df_embeddings = <<>>
        /\ pc \notin {"returned", "done"}

\* C4 witness: embed_corpus raised after it had already collected the vectors
\* of a batch that succeeded.
C4_Witness ==
    /\ pc = "raised"
    /\ embeddings # <<>>
    /\ \E i \in 1..Len(futures) : futures[i].state = "finished"

\* equal scores
SameScore(x, y) == Geq(x, y) /\ Geq(y, x)

\* the score of index entry i (from 0) against the query
ScoreOf(i) == cosine_similarity_manual(q_input, q_index[i + 1])

\* the entries of the index that pass the threshold
Passing == {i \in 0..(Len(q_index) - 1) : Geq(ScoreOf(i), q_threshold)}

Returned == {q_result[j].index : j \in 1..Len(q_result)}

\* C5: find_similar_items returns at most top_k entries, every returned score is
\* >= threshold, and the threshold is inclusive: an entry whose score equals the
\* threshold is left out only when top_k entries are returned without it.
C5_TopKAndThreshold ==
    q_pc = "done" =>
        /\ Len(q_result) <= q_top_k
        /\ \A j \in 1..Len(q_result) :
              /\ q_result[j].index \in 0..(Len(q_index) - 1)
              /\ q_result[j].sim = ScoreOf(q_result[j].index)
              /\ Geq(q_result[j].sim, q_threshold)
        /\ \A i \in 0..(Len(q_index) - 1) :
              (SameScore(ScoreOf(i), q_threshold) /\ i \notin Returned)
                  => Len(q_result) = q_top_k

\* C5 witness: a call that returned an entry whose score equals the threshold,
\* from an index holding more entries than were returned.
C5_Witness ==
    /\ q_pc = "done"
    /\ \E j \in 1..Len(q_result) : SameScore(q_result[j].sim, q_threshold)
    /\ Len(q_index) > Len(q_result)

\* C6: the returned entries are in descending score order, and two returned
\* entries of equal score are in index (insertion) order.
C6_SortedStable ==
    q_pc = "done" =>
        \A a, b \in 1..Len(q_result) :
            a < b =>
                /\ ~Less(q_result[a].sim, q_result[b].sim)
                /\ SameScore(q_result[a].sim, q_result[b].sim)
                       => q_result[a].index < q_result[b].index

\* C6 witness: a result with two entries of equal score, a strictly lower third
\* one, and an entry returned ahead of one inserted before it.
C6_Witness ==
    /\ q_pc = "done"
    /\ \E a, b \in 1..Len(q_result) :
          a < b /\ SameScore(q_result[a].sim, q_result[b].sim)
    /\ \E a, b \in 1..Len(q_result) :
          a < b /\ Less(q_result[b].sim, q_result[a].sim)
    /\ \E a, b \in 1..Len(q_result) :
          a < b /\ q_result[a].index > q_result[b].index

\* C7: the result is the first min(top_k, m) entries of the sorted list of all m
\* passing entries: it has min(top_k, m) distinct passing entries, no omitted
\* passing entry scores higher than a returned one (nor equal with a lower
\* index), and with fewer than top_k entries every passing entry is returned.
C7_CutAfterFilterSort ==
    q_pc = "done" =>
        /\ Len(q_result) = Min(q_top_k, Cardinality(Passing))
        /\ Cardinality(Returned) = Len(q_result)
        /\ Returned \subseteq Passing
        /\ \A i \in Passing \ Returned : \A r \in Returned :
              /\ ~Less(ScoreOf(r), ScoreOf(i))
              /\ SameScore(ScoreOf(r), ScoreOf(i)) => r < i
        /\ Len(q_result) < q_top_k => Returned = Passing

\* C7 witness: top_k >= 1 entries were returned, a passing entry was omitted, and
\* an entry among the first top_k of the index did not pass the threshold.
C7_Witness ==
    /\ q_pc = "done"
    /\ q_top_k >= 1
    /\ Len(q_result) = q_top_k
    /\ Passing \ Returned # {}
    /\ \E i \in 0..(q_top_k - 1) : i < Len(q_index) /\ i \notin Passing

\* the ids of the matching items, in order
MatchingIds == [j \in 1..Len(matching_items) |-> matching_items[j].id]

\* how often x occurs in the sequence s
Occurrences(s, x) == Cardinality({j \in 1..Len(s) : s[j] = x})

\* the ids of the rows that the d-th description retrieves from filtered_items
RetrievedBy(d) ==
    LET embs == [j \in 1..Len(filtered_items) |-> filtered_items[j].embeddings]
        found == find_similar_items(EmbeddingModel(image_analysis.items[d]), embs,
                                    RagThreshold, DefaultTopK)
    IN  {filtered_items[found[j].index + 1].id : j \in 1..Len(found)}

CatalogIds == {styles_df[j].id : j \in 1..Len(styles_df)}

\* C8 as stated: once find_matching_items_with_rag has returned, no catalog item
\* occurs twice in the sequence it returned.
C8_DedupAtRetrieval ==
    g_pc \in {"dedup", "verify", "done"} =>
        \A x \in CatalogIds : Occurrences(MatchingIds, x) <= 1

\* C8 amended: the sequence of find_matching_items_with_rag holds an item once
\* for every description handled that retrieves it: once per description, and
\* as many times as there are such descriptions.
C8_OncePerDescription ==
    g_pc \in {"retrieve", "dedup", "verify", "done"} =>
        \A x \in CatalogIds :
            Occurrences(MatchingIds, x)
                = Cardinality({d \in 1..Len(retrieved) : x \in RetrievedBy(d)})

\* C8 witness: retrieval has returned a sequence in which an item that two
\* different descriptions retrieved occurs twice.
C8_Witness ==
    /\ g_pc = "dedup"
    /\ \E x \in CatalogIds :
          /\ Occurrences(MatchingIds, x) = 2
          /\ \E d, e \in 1..Len(retrieved) :
                /\ image_analysis.items[d] # image_analysis.items[e]
                /\ x \in RetrievedBy(d) /\ x \in RetrievedBy(e)

CandidatePaths == {ImagePath(matching_items[j].id) : j \in 1..Len(matching_items)}

\* C9: the guardrail output holds exactly the candidates verified "yes": every
\* displayed image is a candidate whose check answered "yes", every candidate
\* whose check answered "yes" is displayed, one whose check answered "no" is
\* not, and no image is displayed twice.
C9_GuardrailOutput ==
    /\ \A a, b \in 1..Len(displayed) : a # b => displayed[a] # displayed[b]
    /\ \A a \in 1..Len(displayed) :
          /\ displayed[a] \in CandidatePaths
          /\ \E c \in 1..Len(checked) :
                checked[c].path = displayed[a] /\ checked[c].answer = "yes"
    /\ \A c \in 1..Len(checked) :
          /\ checked[c].answer = "yes" => checked[c].path \in Range(displayed)
          /\ checked[c].answer = "no" => checked[c].path \notin Range(displayed)

\* C9 witness: the loop has ended, an image reached through two descriptions is
\* displayed, and another candidate was verified "no".
C9_Witness ==
    /\ g_pc = "done"
    /\ \E a \in 1..Len(displayed) :
          \E x \in CatalogIds :
              displayed[a] = ImagePath(x) /\ Occurrences(MatchingIds, x) >= 2
    /\ \E c \in 1..Len(checked) : checked[c].answer = "no"

\* C10: the loop runs over paths without duplicates; check_match is never called
\* twice for one path, only for candidate paths, and when the loop has ended it
\* has been called for every distinct candidate path.
C10_VerifiedOnce ==
    /\ g_pc \in {"verify", "done"} =>
          \A a, b \in 1..Len(paths) : a # b => paths[a] # paths[b]
    /\ \A a, b \in 1..Len(checked) : a # b => checked[a].path # checked[b].path
    /\ \A c \in 1..Len(checked) : checked[c].path \in CandidatePaths
    /\ g_pc = "done" =>
          {checked[c].path : c \in 1..Len(checked)} = CandidatePaths

\* C10 witness: the loop has ended after at least one check, with fewer checks
\* than matching items (some item was retrieved more than once).
C10_Witness ==
    /\ g_pc = "done"
    /\ Len(checked) >= 1
    /\ Len(checked) < Len(matching_items)


\* the position in the corpus of the j-th text of batch b
CorpusIndex(b, j) == (b - 1) * batch_size + j

\* C11: every token sequence handed to the embedding call has at most
\* max_context_len tokens: it is the corpus text itself when that is within the
\* budget, and else exactly its first max_context_len tokens; the truncation
\* raises nothing (embed_corpus raises only when a batch failed).
C11_TruncatedToBudget ==
    /\ \A b \in 1..Len(futures) : \A j \in 1..Len(futures[b].input) :
          LET sent == futures[b].input[j]
              text == corpus[CorpusIndex(b, j)]
          IN  /\ Len(sent) <= max_context_len
              /\ Len(sent) = Min(Len(text), max_context_len)
              /\ \A k \in 1..Len(sent) : sent[k] = text[k]
              /\ Len(text) <= max_context_len => sent = text
    /\ pc = "raised" => AnyFailed

\* C11 witness: a batch whose request has been made holds a text that was cut
\* (its first token differs from its last) next to one passed unchanged.
C11_Witness ==
    \E b \in 1..Len(futures) :
        /\ futures[b].state = "finished"
        /\ \E j \in 1..Len(futures[b].input) :
              /\ Len(corpus[CorpusIndex(b, j)]) > max_context_len
              /\ corpus[CorpusIndex(b, j)][1]
                    # corpus[CorpusIndex(b, j)][Len(corpus[CorpusIndex(b, j)])]
        /\ \E j \in 1..Len(futures[b].input) :
              futures[b].input[j] = corpus[CorpusIndex(b, j)]


\* C12: a verification response whose answer is neither "yes" nor "no" is
\* surfaced as an error: the guardrail loop does not go on, or end, as if the
\* candidate had been rejected.
C12_OtherAnswerIsError ==
    \A c \in 1..Len(checked) :
        checked[c].answer \notin {"yes", "no"} => g_pc = "error"


\* the row has the analysed gender or "Unisex", and not the analysed category
Compatible(r) ==
    /\ r.gender \in {image_analysis.gender, "Unisex"}
    /\ r.articleType # image_analysis.category

\* the catalog row with this image path
RowOfPath(p) == CHOOSE r \in Range(styles_df) : ImagePath(r.id) = p

\* C13: every row that reaches retrieval, every retrieved candidate, every path
\* built, checked or displayed belongs to a row with the analysed gender or
\* "Unisex" and a category other than the analysed one; a catalog row failing
\* either condition is never among the matching items.
C13_OnlyCompatibleItems ==
    /\ \A j \in 1..Len(filtered_items) : Compatible(filtered_items[j])
    /\ \A j \in 1..Len(matching_items) :
          /\ Compatible(matching_items[j])
          /\ matching_items[j] \in Range(styles_df)
    /\ \A p \in Range(paths) \cup Range(displayed)
                \cup {checked[c].path : c \in 1..Len(checked)} :
          /\ \E r \in Range(styles_df) : ImagePath(r.id) = p
          /\ Compatible(RowOfPath(p))
    /\ \A r \in Range(styles_df) :
          ~Compatible(r) => r.id \notin Range(MatchingIds)

\* C13 witness: the guardrail loop has ended with an image displayed, while the
\* catalog holds a row that fails the filter although its similarity to one of
\* the descriptions reaches the threshold.
C13_Witness ==
    /\ g_pc = "done"
    /\ displayed # <<>>
    /\ \E r \in Range(styles_df) : \E d \in 1..Len(image_analysis.items) :
          /\ ~Compatible(r)
          /\ Geq(cosine_similarity_manual(EmbeddingModel(image_analysis.items[d]),
                                          r.embeddings),
                 RagThreshold)


\* the futures not yet taken by a worker, in submission order
PendingInOrder ==
    SelectSeq([j \in 1..Len(futures) |-> j], LAMBDA j : futures[j].state = "pending")

\* C14: at every moment at most num_workers batches have their request in
\* progress; the batches beyond that wait in the executor's queue, in
\* submission order; and every batch has been submitted before the main thread
\* looks at any result.
C14_BoundedWorkers ==
    /\ Cardinality(Running) <= num_workers
    /\ nthreads <= num_workers
    /\ queue = PendingInOrder
    /\ pc = "submit" => yielded = {} /\ embeddings = <<>>
    /\ pc \in {"progress", "collect", "raised", "returned", "done"} =>
          Len(futures) = CeilDiv(Len(encoded_corpus), batch_size)

\* C14 witness: every batch is submitted, num_workers requests are in progress
\* and a further batch waits in the queue.
C14_Witness ==
    /\ pc = "progress"
    /\ Cardinality(Running) = num_workers
    /\ queue # <<>>


\* the pair (query, index entry i) has a zero-norm vector
ZeroNormPair(i) == NormSq(q_input) = 0 \/ NormSq(q_index[i + 1]) = 0

\* C15: the similarity of a pair with a zero-norm vector is undefined (nan), and
\* find_similar_items returns no entry of such a pair, hence no nan score.
C15_NoUndefinedScore ==
    /\ \A i \in 0..(Len(q_index) - 1) : ZeroNormPair(i) <=> IsNaN(ScoreOf(i))
    /\ q_pc = "done" =>
          /\ \A j \in 1..Len(q_result) : ~IsNaN(q_result[j].sim)
          /\ \A i \in 0..(Len(q_index) - 1) : ZeroNormPair(i) => i \notin Returned

\* C15 witness: a call on an index holding a zero-norm vector that returned
\* something, and fewer than top_k entries (the cut dropped nothing).
C15_Witness ==
    /\ q_pc = "done"
    /\ \E i \in 0..(Len(q_index) - 1) : ZeroNormPair(i)
    /\ q_result # <<>>
    /\ Len(q_result) < q_top_k


\* the number of items in the batches of the futures in S
RECURSIVE ItemsIn(_)
ItemsIn(S) ==
    IF S = {} THEN 0
    ELSE LET x == CHOOSE y \in S : TRUE
         IN  Len(futures[x].input) + ItemsIn(S \ {x})

\* C16: the progress reported is the number of items of the batches whose
\* completion has been reported; it never exceeds the number of items N, and it
\* is N once every batch has been reported.
C16_ProgressExact ==
    /\ pbar = ItemsIn(yielded)
    /\ pbar <= Len(encoded_corpus)
    /\ pc \in {"collect", "raised", "returned", "done"} => pbar = Len(encoded_corpus)


\* C17: embed_corpus has neither returned nor raised, nor begun to collect
\* results, before every submitted batch has ended (finished, or failed after
\* its retries): a failed batch cancels none. When it raises, the error is that
\* of the failed batch with the lowest index.
C17_AllBatchesEndFirst ==
    /\ pc \in {"collect", "raised", "returned", "done"} =>
          /\ Len(futures) = CeilDiv(Len(encoded_corpus), batch_size)
          /\ \A i \in 1..Len(futures) : Terminal(i)
          /\ Len(done_order) = Len(futures)
    /\ pc = "raised" =>
          /\ fi \in 1..Len(futures)
          /\ futures[fi].state = "failed"
          /\ \A i \in 1..(fi - 1) : futures[i].state = "finished"

\* C17 witness: embed_corpus raised the error of a batch that was not the first
\* to fail, and the last batch to end did so successfully, after a failure.
C17_Witness ==
    /\ pc = "raised"
    /\ Len(done_order) >= 3
    /\ futures[done_order[1]].state = "failed"
    /\ done_order[1] > fi
    /\ futures[done_order[Len(done_order)]].state = "finished"

====
